---- MODULE Spec2Model ----
(***************************************************************************)
(* ScriptDB BaseDB (src/src/scriptdb/basedb.py): the migration engine of   *)
(* init()/_apply_migrations(), the require_init guard of the data          *)
(* operations, the query hooks, the periodic loops and close().            *)
(*                                                                         *)
(* One storage file (its applied_migrations ledger) and one BaseDB         *)
(* instance at a time.  A client constructs an instance, awaits init()     *)
(* (BaseDB.open is the two together), uses it, closes it, and may then     *)
(* construct the next instance on the same file; init() may also be       *)
(* awaited again on the same instance, and data operations may be called   *)
(* in every state.  Every step of init() and of close() is the code        *)
(* between two awaits.                                                     *)
(*                                                                         *)
(* SpecEdited is the same engine with a migration list that is edited      *)
(* between two runs; SpecPeers opens a second instance on the file while   *)
(* the first is being opened; SpecHooked counts the operations of callers  *)
(* and of hook methods; SpecBuilder is the DDL builder of                  *)
(* scriptdb.dbbuilder, which compiles schema statements and touches no     *)
(* database.                                                               *)
(***************************************************************************)
EXTENDS Integers, Sequences, FiniteSets, TLC

\* ------------------------------------------------------------------ bounds
\* longest declared migration list
MaxMigs == 3
\* init() calls in one behaviour
MaxOpens == 2
\* hook tasks that may be unfinished at the same time
MaxQueryTasks == 2
\* loop tasks that may be alive or listed at the same time
MaxLoopTasks == 2
\* actions requested of one alter builder
MaxActions == 3
\* columns added to one table builder after its primary key
MaxFields == 1
\* data operations counted in one behaviour
MaxOps == 4

\* ------------------------------------------------- the declared migrations
\* mig.get("name") of an entry without the key
NoName == 0
\* the names: a list of n entries holds n of them at most, and the longest
\* lists (those of SpecLong) have MaxMigs + 1 entries
MaxNames == MaxMigs + 1
Names == 1..MaxNames
\* which of the keys 'sql' and 'function' an entry carries:
\*   "sql"          'sql' only
\*   "both"         'sql' and 'function'
\*   "function"     'function' only, a callable
\*   "badfunction"  'function' only, not callable
\*   "none"         neither key
Kinds == {"sql", "both", "function", "badfunction", "none"}
Entries == [name : {NoName} \cup Names, kind : Kinds]

\* Names are opaque strings the code only compares: a list uses the names
\* 1, 2, ... in the order of their first occurrence.
Canonical(l) ==
    \A i \in 1..Len(l) :
        \A n \in 1..(l[i].name - 1) : \E j \in 1..(i - 1) : l[j].name = n

ListsUpTo(maxLen) ==
    {l \in UNION {[1..n -> Entries] : n \in 0..maxLen} : Canonical(l)}

\* names = [mig.get("name") for mig in migrations_list]
NamesOf(l) == [i \in 1..Len(l) |-> l[i].name]

\* names.count(name)
Count(names, n) == Cardinality({i \in DOMAIN names : names[i] = n})

\* dupes = {name for name in names if names.count(name) > 1}
Dupes(names) == {names[i] : i \in {j \in DOMAIN names : Count(names, names[j]) > 1}}

\* raise ValueError(f"... {', '.join(sorted(dupes))}"): with None among the
\* duplicates sorted() or str.join() raises TypeError before ValueError is built
DupesError(dupes) == IF NoName \in dupes THEN "TypeError" ELSE "ValueError"

\* "sql" in mig
HasSql(m) == m.kind \in {"sql", "both"}
\* "function" in mig
HasFunction(m) == m.kind \in {"both", "function", "badfunction"}
\* callable(func)
IsCallable(m) == m.kind = "function"

\* ------------------------------------------------------------------- state
VARIABLES
    migrations_list,  \* what self.migrations() returns
    ledger,           \* committed rows of applied_migrations (the names)
    table_exists,     \* applied_migrations exists in the file
    deferred,         \* names whose callback returned an awaitable nobody awaits, still pending
    pc,               \* where the instance is: none, new, the awaits of init(), failed, ready, closed
    conn,             \* self.conn: "None", "open", "closed"
    initialized,      \* self.initialized
    applied,          \* local `applied` of _apply_migrations
    idx,              \* position of the for loop in migrations_list, from 1
    error,            \* the exception init() raised, "none" if none
    op_result,        \* how the data operation that ended in the last step ended: ok or the exception; none if none did
    close_result,     \* how the close() that ended in the last step ended: ok or the exception; none if none did
    hook_count,       \* hook["count"] of the query hook
    query_tasks,      \* number of tasks in _query_tasks (unfinished hook tasks the instance tracks)
    hook_started,     \* how many of them have begun to run the hook's method
    hook_strays,      \* unfinished hook tasks the instance no longer tracks
    periodic_specs,   \* self._periodic_specs: the methods decorated with run_every_seconds
    query_hooks,      \* self._query_hooks: the methods decorated with run_every_queries
    loop_tasks,       \* the loop tasks of the instance, in creation order: [spec, st, listed, awaited]
    close_pc,         \* where close() is: idle, periodic, await, hooks, await_hook, conn, flag
    close_idx,        \* position of the iterator of `for task in self._periodic_tasks`
    close_left,       \* tasks of list(self._query_tasks) close() has still to cancel
    opens,            \* history: init() calls so far
    starts,           \* history: starts[n] = times the action of name n was started on this file
    run_log,          \* history: indexes whose action this init() started, in order
    in_progress,      \* history: indexes whose action was started and has not returned
    touched,          \* history: what this init() did to applied_migrations: create, read, write
    completed,        \* history: some init() on this file returned normally
    failed_at,        \* history: entry at which this init() raised, 0 if it did not (or before the loop)
    prev_failed_at,   \* history: failed_at of the init() before this one
    raised_at,        \* history: entry whose action raised in this init(), 0 if none did
    builder,          \* the DDL builder object a caller holds: its kind, what was requested, the text of done()
    peer,             \* the init() of a second instance opened on the same file: [pc, applied, idx, error]
    tally             \* history: data operations completed, by who issued them, and hook tasks launched

fileVars == <<migrations_list, ledger, table_exists, deferred>>
instVars == <<pc, conn, initialized, applied, idx, error>>
resultVars == <<op_result, close_result>>
schedVars == <<hook_count, query_tasks, hook_started, hook_strays,
               periodic_specs, query_hooks, loop_tasks, close_pc, close_idx, close_left>>
histVars == <<opens, starts, run_log, in_progress, touched, completed, failed_at,
             prev_failed_at, raised_at>>
baseVars == <<fileVars, instVars, resultVars, schedVars, histVars>>
vars == <<baseVars, builder, peer, tally>>

\* the step ends no data operation and no close()
NoReturn == op_result' = "none" /\ close_result' = "none"

\* @run_every_queries(2) of the hook in the tests
HookInterval == 2

\* the methods a subclass decorates with run_every_seconds, in the order of
\* dir(self), and the sets of them the model's subclasses declare
SpecOrder == <<"tick", "tock">>
SpecSets == {{SpecOrder[k] : k \in 1..n} : n \in 0..Len(SpecOrder)}
\* the methods a subclass decorates with run_every_queries
HookSets == {{}, {"hook"}}

\* no second instance has been opened on the file
NoPeer == [pc |-> "none", applied |-> {}, idx |-> 0, error |-> "none"]

\* nothing has been counted
NoTally == [caller |-> 0, hooked |-> 0, launches |-> 0]

\* no builder has been created
NoBuilder == [of |-> "none", table |-> "none", columns |-> <<>>, actions |-> <<>>,
              asked |-> <<>>, error |-> "none", done |-> FALSE, text |-> <<>>]

\* the subclasses: a migration list of maxLen entries at most, periodic specs
\* and a query hook; those with a list longer than schedLen (one entry, in
\* the specifications below) declare neither
Subclasses(maxLen, schedLen) ==
    {c \in [list : ListsUpTo(maxLen), specs : SpecSets, hooks : HookSets] :
        Len(c.list) <= schedLen \/ (c.specs = {} /\ c.hooks = {})}

InitWith(subclasses) ==
    /\ \E c \in subclasses :
        /\ migrations_list = c.list
        /\ periodic_specs = c.specs
        /\ query_hooks = c.hooks
    /\ ledger = {}
    /\ table_exists = FALSE
    /\ deferred = {}
    /\ pc = "none"
    /\ conn = "None"
    /\ initialized = FALSE
    /\ applied = {}
    /\ idx = 0
    /\ error = "none"
    /\ op_result = "none"
    /\ close_result = "none"
    /\ hook_count = 0
    /\ query_tasks = 0
    /\ hook_started = 0
    /\ hook_strays = 0
    /\ loop_tasks = <<>>
    /\ close_pc = "idle"
    /\ close_idx = 0
    /\ close_left = 0
    /\ opens = 0
    /\ starts = [n \in Names |-> 0]
    /\ run_log = <<>>
    /\ in_progress = {}
    /\ touched = {}
    /\ completed = FALSE
    /\ failed_at = 0
    /\ prev_failed_at = 0
    /\ raised_at = 0
    /\ builder = NoBuilder
    /\ peer = NoPeer
    /\ tally = NoTally

Init == InitWith(Subclasses(MaxMigs, 1))

\* ----------------------------------------------------- construction, init()
\* BaseDB.__init__: a fresh instance; the previous one, and the tasks it may
\* have left behind, are followed no further
Construct ==
    /\ pc \in {"none", "new", "failed", "closed"}
    /\ close_pc = "idle"
    /\ pc' = "new"
    /\ conn' = "None"
    /\ initialized' = FALSE
    /\ applied' = {}
    /\ idx' = 0
    /\ error' = "none"
    /\ op_result' = "none"
    /\ close_result' = "none"
    /\ hook_count' = 0
    /\ query_tasks' = 0
    /\ hook_started' = 0
    /\ hook_strays' = 0
    /\ loop_tasks' = <<>>
    /\ run_log' = <<>>
    /\ in_progress' = {}
    /\ touched' = {}
    /\ raised_at' = 0
    /\ UNCHANGED <<fileVars, periodic_specs, query_hooks, close_pc, close_idx, close_left,
                   opens, starts, completed, failed_at, prev_failed_at>>
    /\ UNCHANGED <<builder, peer, tally>>

\* Between two runs the schema owner edits the content of a migration that
\* has been applied (its script, or which of 'sql' and 'function' it has):
\* migrations() of the next instance returns the entry under the same name
\* with another content.  (An edit of an entry that was never applied is a
\* list the program could have declared from the start.)
Redeclare ==
    /\ pc \in {"failed", "closed"}
    /\ close_pc = "idle"
    /\ \E k \in DOMAIN migrations_list : \E kind \in Kinds :
        /\ migrations_list[k].name \in ledger
        /\ migrations_list[k].kind # kind
        /\ migrations_list' = [migrations_list EXCEPT ![k].kind = kind]
    /\ NoReturn
    /\ UNCHANGED <<ledger, table_exists, deferred, instVars, schedVars, histVars, builder, peer, tally>>

\* init() is called: by open() on the fresh instance, or by a client on an
\* instance it holds (one that failed, is in use, or was closed)
InitCall ==
    /\ pc \in {"new", "failed", "ready", "closed"}
    /\ close_pc = "idle"
    /\ opens < MaxOpens
    /\ pc' = "connect"
    /\ opens' = opens + 1
    /\ prev_failed_at' = failed_at
    /\ failed_at' = 0
    /\ applied' = {}
    /\ idx' = 0
    /\ error' = "none"
    /\ run_log' = <<>>
    /\ in_progress' = {}
    /\ touched' = {}
    /\ raised_at' = 0
    /\ op_result' = "none"
    /\ close_result' = "none"
    /\ UNCHANGED <<fileVars, conn, initialized, hook_count, query_tasks, hook_started,
                   hook_strays, periodic_specs, query_hooks, loop_tasks, close_pc, close_idx, close_left,
                   starts, completed>>
    /\ UNCHANGED <<builder, peer, tally>>

\* self.conn = await aiosqlite.connect(self.db_path)
Connect ==
    /\ pc = "connect"
    /\ conn' = "open"
    /\ pc' = "ensure"
    /\ NoReturn
    /\ UNCHANGED <<fileVars, initialized, applied, idx, error, schedVars, histVars>>
    /\ UNCHANGED <<builder, peer, tally>>

\* await self._ensure_migrations_table()
EnsureTable ==
    /\ pc = "ensure"
    /\ table_exists' = TRUE
    /\ touched' = touched \cup {"create"}
    /\ pc' = "precheck"
    /\ NoReturn
    /\ UNCHANGED <<migrations_list, ledger, deferred, conn, initialized, applied, idx,
                   error, schedVars, opens, starts, run_log, in_progress, completed,
                   failed_at, prev_failed_at, raised_at>>
    /\ UNCHANGED <<builder, peer, tally>>

\* a changed loop: for mig in reversed(migrations_list)
Position_reversed(k) == Len(migrations_list) + 1 - k

\* for mig in migrations_list: iteration k of the loop takes entry k
Position(k) == k

\* an exception leaves init(): nothing after the raise runs
Raise(e) ==
    /\ pc' = "failed"
    /\ error' = e
    /\ failed_at' = IF pc = "precheck" THEN 0 ELSE Position(idx)

\* the duplicate check at the head of _apply_migrations
Precheck ==
    /\ pc = "precheck"
    /\ LET dupes == Dupes(NamesOf(migrations_list))
       IN  IF dupes # {}
           THEN Raise(DupesError(dupes))
           ELSE pc' = "read" /\ UNCHANGED <<error, failed_at>>
    /\ NoReturn
    /\ UNCHANGED <<fileVars, conn, initialized, applied, idx, schedVars,
                   opens, starts, run_log, in_progress, touched, completed, prev_failed_at, raised_at>>
    /\ UNCHANGED <<builder, peer, tally>>

\* a changed _applied_versions: it returns no name
AppliedVersions_empty(rows) == {}

\* _applied_versions(): the names in the ledger
AppliedVersions(rows) == rows

\* applied = await self._applied_versions()
ReadApplied ==
    /\ pc = "read"
    /\ applied' = AppliedVersions(ledger)
    /\ touched' = touched \cup {"read"}
    /\ idx' = 1
    /\ pc' = "loop"
    /\ NoReturn
    /\ UNCHANGED <<fileVars, conn, initialized, error, schedVars,
                   opens, starts, run_log, in_progress, completed, failed_at, prev_failed_at, raised_at>>
    /\ UNCHANGED <<builder, peer, tally>>

\* ------------------------------------------- the loop of _apply_migrations
Current == migrations_list[Position(idx)]
InLoop == pc = "loop" /\ idx <= Len(migrations_list)

\* a changed skip test: no entry is ever skipped
IsApplied_never(name, appliedSet) == FALSE

\* if name in applied: continue
IsApplied(name, appliedSet) == name \in appliedSet

\* a changed loop: the exception of an action is caught and the loop goes on
AfterAction_swallow(raised) == "insert"

\* where init() goes when an awaited action returns or raises: an exception
\* of executescript or of the awaited coroutine is not caught
AfterAction(raised) == IF raised THEN "failed" ELSE "insert"

\* a changed loop: the INSERT is never committed
CommitRow_lost(rows, name) == rows

\* await self.conn.commit() after the INSERT: the row is in the ledger
CommitRow(rows, name) == rows \cup {name}

\* the action of the current entry starts
NoteStart ==
    /\ starts' = [starts EXCEPT ![Current.name] = @ + 1]
    /\ run_log' = Append(run_log, Position(idx))

\* if not name: raise ValueError("Migration entry missing 'name'")
MissingName ==
    /\ InLoop
    /\ Current.name = NoName
    /\ Raise("ValueError")
    /\ NoReturn
    /\ UNCHANGED <<fileVars, conn, initialized, applied, idx, schedVars,
                   opens, starts, run_log, in_progress, touched, completed, prev_failed_at, raised_at>>
    /\ UNCHANGED <<builder, peer, tally>>

\* a changed skip: the content of an applied entry is validated before the
\* entry is skipped
SkipApplied_validating ==
    /\ InLoop
    /\ Current.name # NoName
    /\ IsApplied(Current.name, applied)
    /\ IF HasSql(Current) \/ (HasFunction(Current) /\ IsCallable(Current))
       THEN idx' = idx + 1 /\ UNCHANGED <<pc, error, failed_at>>
       ELSE Raise("ValueError") /\ idx' = idx
    /\ NoReturn
    /\ UNCHANGED <<fileVars, conn, initialized, applied, schedVars,
                   opens, starts, run_log, in_progress, touched, completed, prev_failed_at, raised_at>>
    /\ UNCHANGED <<builder, peer, tally>>

\* if name in applied: continue
SkipApplied ==
    /\ InLoop
    /\ Current.name # NoName
    /\ IsApplied(Current.name, applied)
    /\ idx' = idx + 1
    /\ NoReturn
    /\ UNCHANGED <<fileVars, pc, conn, initialized, applied, error, schedVars, histVars>>
    /\ UNCHANGED <<builder, peer, tally>>

Unapplied == InLoop /\ Current.name # NoName /\ ~IsApplied(Current.name, applied)

\* if "sql" in mig: await self.conn.executescript(mig["sql"])
StartScript ==
    /\ Unapplied
    /\ HasSql(Current)
    /\ NoteStart
    /\ in_progress' = in_progress \cup {Position(idx)}
    /\ pc' = "script"
    /\ NoReturn
    /\ UNCHANGED <<fileVars, conn, initialized, applied, idx, error, schedVars,
                   opens, touched, completed, failed_at, prev_failed_at, raised_at>>
    /\ UNCHANGED <<builder, peer, tally>>

\* executescript returns or raises
ScriptDone ==
    /\ pc = "script"
    /\ \E raised \in BOOLEAN :
        /\ pc' = AfterAction(raised)
        /\ error' = IF pc' = "failed" THEN "ActionError" ELSE error
        /\ failed_at' = IF pc' = "failed" THEN Position(idx) ELSE failed_at
        /\ raised_at' = IF raised THEN Position(idx) ELSE raised_at
    /\ in_progress' = in_progress \ {Position(idx)}
    /\ NoReturn
    /\ UNCHANGED <<fileVars, conn, initialized, applied, idx, schedVars,
                   opens, starts, run_log, touched, completed, prev_failed_at>>
    /\ UNCHANGED <<builder, peer, tally>>

\* elif "function" in mig: if not callable(func): raise ValueError
BadFunction ==
    /\ Unapplied
    /\ ~HasSql(Current) /\ HasFunction(Current) /\ ~IsCallable(Current)
    /\ Raise("ValueError")
    /\ NoReturn
    /\ UNCHANGED <<fileVars, conn, initialized, applied, idx, schedVars,
                   opens, starts, run_log, in_progress, touched, completed, prev_failed_at, raised_at>>
    /\ UNCHANGED <<builder, peer, tally>>

\* what func(self.conn) does: it raises, or returns a plain value, a
\* coroutine, or an awaitable that is no coroutine (a Future, a Task)
Results == {"raise", "value", "coroutine", "awaitable"}

\* result = func(self.conn); if asyncio.iscoroutine(result): await result
CallFunction ==
    /\ Unapplied
    /\ ~HasSql(Current) /\ HasFunction(Current) /\ IsCallable(Current)
    /\ NoteStart
    /\ \E result \in Results :
        CASE result = "raise" ->
                /\ Raise("ActionError")
                /\ raised_at' = Position(idx)
                /\ UNCHANGED <<deferred, in_progress>>
          [] result = "value" ->
                /\ pc' = "insert"
                /\ UNCHANGED <<deferred, in_progress, error, failed_at, raised_at>>
          [] result = "coroutine" ->
                /\ pc' = "coro"
                /\ in_progress' = in_progress \cup {Position(idx)}
                /\ UNCHANGED <<deferred, error, failed_at, raised_at>>
          [] result = "awaitable" ->
                /\ pc' = "insert"
                /\ deferred' = deferred \cup {Current.name}
                /\ UNCHANGED <<in_progress, error, failed_at, raised_at>>
    /\ NoReturn
    /\ UNCHANGED <<migrations_list, ledger, table_exists, conn, initialized, applied, idx,
                   schedVars, opens, touched, completed, prev_failed_at>>
    /\ UNCHANGED <<builder, peer, tally>>

\* the awaited coroutine returns or raises
CoroDone ==
    /\ pc = "coro"
    /\ \E raised \in BOOLEAN :
        /\ pc' = AfterAction(raised)
        /\ error' = IF pc' = "failed" THEN "ActionError" ELSE error
        /\ failed_at' = IF pc' = "failed" THEN Position(idx) ELSE failed_at
        /\ raised_at' = IF raised THEN Position(idx) ELSE raised_at
    /\ in_progress' = in_progress \ {Position(idx)}
    /\ NoReturn
    /\ UNCHANGED <<fileVars, conn, initialized, applied, idx, schedVars,
                   opens, starts, run_log, touched, completed, prev_failed_at>>
    /\ UNCHANGED <<builder, peer, tally>>

\* else: raise ValueError("Migration ... must have either 'sql' or 'function'")
NoAction ==
    /\ Unapplied
    /\ ~HasSql(Current) /\ ~HasFunction(Current)
    /\ Raise("ValueError")
    /\ NoReturn
    /\ UNCHANGED <<fileVars, conn, initialized, applied, idx, schedVars,
                   opens, starts, run_log, in_progress, touched, completed, prev_failed_at, raised_at>>
    /\ UNCHANGED <<builder, peer, tally>>

\* the other connection holds the write lock of the file: its INSERT is not
\* committed yet
Locked(otherPc) == otherPc = "commit"

\* await self.conn.execute("INSERT INTO applied_migrations(name) VALUES (?)"):
\* the engine may refuse it, and refuses a name the ledger holds (PRIMARY KEY)
\* and a write while another connection holds the lock
InsertRow ==
    /\ pc = "insert"
    /\ touched' = touched \cup {"write"}
    /\ \E ok \in BOOLEAN :
        IF ok /\ Current.name \notin ledger /\ ~Locked(peer.pc)
        THEN pc' = "commit" /\ UNCHANGED <<error, failed_at>>
        ELSE Raise("DatabaseError")
    /\ NoReturn
    /\ UNCHANGED <<fileVars, conn, initialized, applied, idx, schedVars,
                   opens, starts, run_log, in_progress, completed, prev_failed_at, raised_at>>
    /\ UNCHANGED <<builder, peer, tally>>

\* await self.conn.commit(): the row is durable, or the commit raises and it is not
Commit ==
    /\ pc = "commit"
    /\ \E ok \in BOOLEAN :
        IF ok
        THEN /\ ledger' = CommitRow(ledger, Current.name)
             /\ idx' = idx + 1
             /\ pc' = "loop"
             /\ UNCHANGED <<error, failed_at>>
        ELSE /\ Raise("DatabaseError")
             /\ UNCHANGED <<ledger, idx>>
    /\ NoReturn
    /\ UNCHANGED <<migrations_list, table_exists, deferred, conn, initialized, applied,
                   schedVars, opens, starts, run_log, in_progress, touched, completed,
                   prev_failed_at, raised_at>>
    /\ UNCHANGED <<builder, peer, tally>>

\* ------------------------------------------------------ the loop tasks
\* the sequence without its i-th element
Remove(seq, i) == [k \in 1..(Len(seq) - 1) |-> IF k < i THEN seq[k] ELSE seq[k + 1]]

\* a task that has not ended: created and not yet run, inside `await method()`,
\* or inside `await asyncio.sleep(seconds)`
Alive(t) == t.st \in {"created", "invoking", "sleeping"}

\* self._periodic_tasks: the listed tasks, in order; ListedAt(n) is the
\* position in loop_tasks of its n-th element
ListedBefore(i) == Cardinality({j \in 1..i : loop_tasks[j].listed})
PeriodicTasksLen == ListedBefore(Len(loop_tasks))
ListedAt(n) == CHOOSE i \in DOMAIN loop_tasks : loop_tasks[i].listed /\ ListedBefore(i) = n

\* for seconds, method in self._periodic_specs: task = asyncio.create_task(runner())
NewLoopTasks ==
    LET declared == SelectSeq(SpecOrder, LAMBDA s : s \in periodic_specs)
    IN  [k \in 1..Len(declared) |->
            [spec |-> declared[k], st |-> "created", listed |-> TRUE, awaited |-> FALSE]]

\* a changed init(): it does not wait for _apply_migrations to return
LoopOver_early(position, list) == TRUE

\* `for mig in migrations_list` is exhausted: _apply_migrations returns
LoopOver(position, list) == position > Len(list)

\* the loop is over: self.initialized = True, then one loop task per periodic
\* spec is created and appended to self._periodic_tasks
InitDone ==
    /\ pc = "loop"
    /\ LoopOver(idx, migrations_list)
    /\ Len(loop_tasks) + Cardinality(periodic_specs) <= MaxLoopTasks
    /\ initialized' = TRUE
    /\ loop_tasks' = loop_tasks \o NewLoopTasks
    /\ pc' = "ready"
    /\ completed' = TRUE
    /\ NoReturn
    /\ UNCHANGED <<fileVars, conn, applied, idx, error, hook_count,
                   query_tasks, hook_started, hook_strays, periodic_specs, query_hooks, close_pc, close_idx,
                   close_left, opens, starts, run_log, in_progress, touched, failed_at,
                   prev_failed_at, raised_at>>
    /\ UNCHANGED <<builder, peer, tally>>

\* the work behind an awaitable nobody awaits ends on its own
DeferredDone ==
    /\ \E n \in deferred : deferred' = deferred \ {n}
    /\ NoReturn
    /\ UNCHANGED <<migrations_list, ledger, table_exists, instVars, schedVars, histVars>>
    /\ UNCHANGED <<builder, peer, tally>>

\* a changed runner: the call is outside the loop;
\* await method(); while True: await asyncio.sleep(seconds)
FirstStep_once(st) == IF st = "created" THEN "invoking" ELSE "sleeping"

\* runner(): while True: await method(); await asyncio.sleep(seconds).  What a
\* task that is not inside method() does when it runs next: the body of the
\* loop begins with the invocation, on the first pass as after every sleep
FirstStep(st) == "invoking"

\* a loop task runs: it was just created, or its sleep is over
PeriodicInvoke(i) ==
    /\ i \in DOMAIN loop_tasks
    /\ loop_tasks[i].st \in {"created", "sleeping"}
    /\ loop_tasks' = [loop_tasks EXCEPT ![i].st = FirstStep(loop_tasks[i].st)]
    /\ NoReturn
    /\ UNCHANGED <<fileVars, instVars, hook_count, query_tasks,
                   hook_started, hook_strays, periodic_specs, query_hooks, close_pc, close_idx, close_left,
                   histVars>>
    /\ UNCHANGED <<builder, peer, tally>>

\* await method() returns: the loop sleeps
PeriodicReturn(i) ==
    /\ i \in DOMAIN loop_tasks
    /\ loop_tasks[i].st = "invoking"
    /\ loop_tasks' = [loop_tasks EXCEPT ![i].st = "sleeping"]
    /\ NoReturn
    /\ UNCHANGED <<fileVars, instVars, hook_count, query_tasks,
                   hook_started, hook_strays, periodic_specs, query_hooks, close_pc, close_idx, close_left,
                   histVars>>
    /\ UNCHANGED <<builder, peer, tally>>

\* await method() raises: nothing in runner() catches it, the task ends with
\* the exception; it stays in self._periodic_tasks until its done-callback runs
PeriodicRaise(i) ==
    /\ i \in DOMAIN loop_tasks
    /\ loop_tasks[i].st = "invoking"
    /\ loop_tasks' = IF loop_tasks[i].listed
                     THEN [loop_tasks EXCEPT ![i].st = "raised"]
                     ELSE Remove(loop_tasks, i)
    /\ NoReturn
    /\ UNCHANGED <<fileVars, instVars, hook_count, query_tasks,
                   hook_started, hook_strays, periodic_specs, query_hooks, close_pc, close_idx, close_left,
                   histVars>>
    /\ UNCHANGED <<builder, peer, tally>>

\* close() is suspended in `await task` on this task, whose method caught
\* the CancelledError and went on
Awaited(i) == loop_tasks[i].awaited

\* _cleanup, the done-callback of a loop task: tasks.remove(t); for the task
\* close() awaits it is part of the step that wakes close() up
Cleanup(i) ==
    /\ i \in DOMAIN loop_tasks
    /\ loop_tasks[i].st = "raised"
    /\ ~Awaited(i)
    /\ loop_tasks' = Remove(loop_tasks, i)
    /\ NoReturn
    /\ UNCHANGED <<fileVars, instVars, hook_count, query_tasks,
                   hook_started, hook_strays, periodic_specs, query_hooks, close_pc, close_idx, close_left,
                   histVars>>
    /\ UNCHANGED <<builder, peer, tally>>

\* ------------------------------------------------- the data operations
\* the public coroutines decorated with @require_init, close() aside.  Each
\* has one call of self._on_query() as its last statement, but upsert_one,
\* delete_one and delete_many, which have none of their own and reach the one
\* of execute through `await self.execute(...)`
DataOps == {"execute", "execute_many", "insert_one", "insert_many", "upsert_one",
            "upsert_many", "delete_one", "delete_many", "query_many",
            "query_many_gen", "query_one"}

\* a changed guard: it tests the connection only
require_init_conn_only(isInitialized, connection) == connection # "None"

\* require_init: the wrapped method runs only on an initialized instance with
\* a connection:  if not getattr(self, 'initialized', False) or self.conn is None
require_init(isInitialized, connection) == isInitialized /\ connection # "None"

\* the operations that take a list of rows, and the lists a call may pass
\* (empty or not)
RowOps == {"insert_many", "upsert_many"}
RowArgs(op) == IF op \in RowOps THEN BOOLEAN ELSE {FALSE}

\* `if not rows: return` of insert_many and upsert_many comes before any statement
ReturnsEarly(op, emptyRows) == op \in RowOps /\ emptyRows

\* The operations differ, as far as this model goes, in that early return
\* only: one operation of each of the two shapes stands for the others.
OneOfEachShape == {CHOOSE op \in DataOps \ RowOps : TRUE, CHOOSE op \in RowOps : TRUE}

\* a changed test: the hook fires one operation early
Reached_early(count, interval) == count >= interval - 1

\* a changed test: the hook fires one operation late
Reached_late(count, interval) == count > interval

\* if hook["count"] >= hook["interval"]
Reached(count, interval) == count >= interval

\* a changed reset: the counter stays at the threshold while the task is alive
ResetCount_kept(count) == count - 1

\* hook["count"] = 0
ResetCount(count) == 0

\* a changed launch: no task is created while one of the hook is unfinished
Launch_serialized(tracked) == IF tracked > 0 THEN tracked ELSE tracked + 1

\* task = asyncio.create_task(runner()); self._query_tasks.append(task)
Launch(tracked) == tracked + 1

\* _on_query, for hook in self._query_hooks (one at most): the counter goes up, and at the interval it
\* is reset and a task running the hook's method is created and tracked
OnQuery ==
    IF query_hooks = {}
    THEN UNCHANGED <<hook_count, query_tasks>>
    ELSE IF Reached(hook_count + 1, HookInterval)
    THEN /\ hook_count' = ResetCount(hook_count + 1)
         /\ query_tasks' = Launch(query_tasks)
    ELSE /\ hook_count' = hook_count + 1
         /\ UNCHANGED query_tasks

\* a data operation is awaited, by whoever holds the instance; the engine
\* carries the statement out or raises, and _on_query is the last line before
\* the return
Operation(op, emptyRows) ==
    /\ pc # "none"
    /\ IF ~require_init(initialized, conn)
       THEN /\ op_result' = "RuntimeError"
            /\ UNCHANGED <<hook_count, query_tasks>>
       ELSE IF ReturnsEarly(op, emptyRows)
       THEN /\ op_result' = "ok"
            /\ UNCHANGED <<hook_count, query_tasks>>
       ELSE IF conn # "open"
       THEN \* the statement is sent to a closed connection
            /\ op_result' = "ConnectionError"
            /\ UNCHANGED <<hook_count, query_tasks>>
       ELSE \/ /\ op_result' = "DatabaseError"
               /\ UNCHANGED <<hook_count, query_tasks>>
            \/ /\ query_tasks + hook_strays < MaxQueryTasks
               /\ op_result' = "ok"
               /\ OnQuery
    /\ close_result' = "none"
    /\ UNCHANGED <<fileVars, instVars, hook_started, hook_strays, periodic_specs, query_hooks,
                   loop_tasks, close_pc, close_idx, close_left, histVars>>

\* a coroutine that holds the instance awaits a data operation
DataOp(op, emptyRows) ==
    /\ Operation(op, emptyRows)
    /\ UNCHANGED <<builder, peer, tally>>

\* the history of an operation issued by `who`: one more completed if it
\* returned, one more launch if _on_query created a task
Tallied(who) ==
    tally' = [tally EXCEPT
                ![who] = @ + (IF op_result' = "ok" THEN 1 ELSE 0),
                !.launches = @ + (IF query_tasks' > query_tasks THEN 1 ELSE 0)]

\* a client of the instance awaits a data operation
CallerOp(op, emptyRows) ==
    /\ tally.caller + tally.hooked < MaxOps
    /\ Operation(op, emptyRows)
    /\ Tallied("caller")
    /\ UNCHANGED <<builder, peer>>

\* the method of a hook task that is running awaits a data operation of its
\* own instance: await self.execute(...), as in the docstring of
\* run_every_queries
HookOp(op, emptyRows) ==
    /\ hook_started + hook_strays > 0
    /\ tally.caller + tally.hooked < MaxOps
    /\ Operation(op, emptyRows)
    /\ Tallied("hooked")
    /\ UNCHANGED <<builder, peer>>

\* a hook task runs for the first time: runner() enters `await method()`
HookTaskStart ==
    /\ hook_started < query_tasks
    /\ hook_started' = hook_started + 1
    /\ NoReturn
    /\ UNCHANGED <<fileVars, instVars, hook_count, query_tasks,
                   hook_strays, periodic_specs, query_hooks, loop_tasks, close_pc, close_idx, close_left,
                   histVars>>
    /\ UNCHANGED <<builder, peer, tally>>

\* the hook task close() is suspended on, in `await task`: one of the copy,
\* begun; its end is the step that wakes close() up (CloseAwaitHook)
AwaitedHooks == IF close_pc = "await_hook" THEN 1 ELSE 0

\* the method of a hook task returns or raises: the task ends and its
\* done-callback drops it from _query_tasks; while close() works through its
\* copy of the list, the task is one of the copy or a later one
HookTaskDone ==
    /\ hook_started > AwaitedHooks
    /\ query_tasks' = query_tasks - 1
    /\ hook_started' = hook_started - 1
    /\ \E copied \in BOOLEAN :
        /\ copied => close_left > AwaitedHooks
        /\ ~copied => query_tasks > close_left
        /\ close_left' = IF copied THEN close_left - 1 ELSE close_left
    /\ NoReturn
    /\ UNCHANGED <<fileVars, instVars, hook_count, hook_strays,
                   periodic_specs, query_hooks, loop_tasks, close_pc, close_idx, histVars>>
    /\ UNCHANGED <<builder, peer, tally>>

\* a hook task the instance no longer tracks runs to its end
StrayHookRuns ==
    /\ hook_strays > 0
    /\ hook_strays' = hook_strays - 1
    /\ NoReturn
    /\ UNCHANGED <<fileVars, instVars, hook_count, query_tasks,
                   hook_started, periodic_specs, query_hooks, loop_tasks, close_pc, close_idx, close_left,
                   histVars>>
    /\ UNCHANGED <<builder, peer, tally>>

\* ------------------------------------------------------------- close()
\* close() is called (no init() of the instance is in flight): the guard of
\* require_init, then the loop over self._periodic_tasks begins
CloseCall ==
    /\ pc \in {"new", "failed", "ready", "closed"}
    /\ close_pc = "idle"
    /\ IF ~require_init(initialized, conn)
       THEN /\ close_result' = "RuntimeError"
            /\ UNCHANGED <<close_pc, close_idx>>
       ELSE /\ close_result' = "none"
            /\ close_pc' = "periodic"
            /\ close_idx' = 1
    /\ op_result' = "none"
    /\ UNCHANGED <<fileVars, instVars, hook_count, query_tasks, hook_started,
                   hook_strays, periodic_specs, query_hooks, loop_tasks, close_left, histVars>>
    /\ UNCHANGED <<builder, peer, tally>>

\* a changed loop: it runs over a copy, for task in list(self._periodic_tasks)
NextIndex_copy(i) == i

\* for task in self._periodic_tasks: the list iterator moves to the next
\* position of the list itself, from which the awaited task's done-callback
\* has meanwhile removed the task
NextIndex(i) == i + 1

\* a changed await: close() gives a task one pass of the event loop to end
\* and goes on without it
StillWaits_timeout(ended) == FALSE

\* `await task` has no timeout: close() stays suspended until the task has ended
StillWaits(ended) == ~ended

\* task.cancel() throws CancelledError into the task where it is suspended:
\* inside runner() (not yet run, or in asyncio.sleep) nothing catches it; a
\* method() may catch it and go on
Swallows(st) == st = "invoking"

\* one pass of `for task in self._periodic_tasks: task.cancel(); await task`,
\* or its end and self._periodic_tasks.clear().  A task that has ended with an
\* exception is not cancelled and `await task` raises that exception out of
\* close(); any other task ends cancelled, its done-callback takes it off the
\* list, and close() goes on, unless its method catches the CancelledError:
\* then close() stays in `await task`.  After the loop the copy
\* list(self._query_tasks) is taken; with no task in it close() runs on,
\* without a suspension, to `await self.conn.close()`
ClosePeriodic ==
    /\ close_pc = "periodic"
    /\ IF close_idx <= PeriodicTasksLen
       THEN LET i == ListedAt(close_idx)
            IN  IF loop_tasks[i].st = "raised"
                THEN /\ close_result' = "ActionError"
                     /\ close_pc' = "idle"
                     /\ close_idx' = 0
                     /\ UNCHANGED <<loop_tasks, close_left>>
                ELSE \/ /\ loop_tasks' = Remove(loop_tasks, i)
                        /\ close_idx' = NextIndex(close_idx)
                        /\ close_result' = "none"
                        /\ UNCHANGED <<close_pc, close_left>>
                     \/ /\ Swallows(loop_tasks[i].st)
                        /\ loop_tasks' = [loop_tasks EXCEPT ![i].awaited = TRUE]
                        /\ close_pc' = "await"
                        /\ close_result' = "none"
                        /\ UNCHANGED <<close_idx, close_left>>
       ELSE /\ loop_tasks' = [k \in 1..Len(SelectSeq(loop_tasks, Alive)) |->
                                [SelectSeq(loop_tasks, Alive)[k] EXCEPT !.listed = FALSE]]
            /\ close_pc' = IF query_tasks > 0 THEN "hooks" ELSE "conn"
            /\ close_idx' = 0
            /\ close_left' = query_tasks
            /\ close_result' = "none"
    /\ op_result' = "none"
    /\ UNCHANGED <<fileVars, instVars, hook_count, query_tasks, hook_started,
                   hook_strays, periodic_specs, query_hooks, histVars>>
    /\ UNCHANGED <<builder, peer, tally>>

\* close() is suspended in `await task` on a loop task that went on after
\* task.cancel(): it wakes up when that task ends, which the task does only
\* with an exception of its method (runner() has no other way out), and the
\* exception leaves close()
CloseAwait ==
    /\ close_pc = "await"
    /\ LET i == CHOOSE j \in DOMAIN loop_tasks : Awaited(j)
       IN  /\ ~StillWaits(loop_tasks[i].st = "raised")
           /\ IF loop_tasks[i].st = "raised"
              THEN /\ loop_tasks' = Remove(loop_tasks, i)
                   /\ close_result' = "ActionError"
                   /\ close_pc' = "idle"
                   /\ close_idx' = 0
              ELSE /\ loop_tasks' = [loop_tasks EXCEPT ![i].awaited = FALSE]
                   /\ close_result' = "none"
                   /\ close_pc' = "periodic"
                   /\ close_idx' = close_idx + 1
    /\ op_result' = "none"
    /\ UNCHANGED <<fileVars, instVars, hook_count, query_tasks, hook_started,
                   hook_strays, periodic_specs, query_hooks, close_left, histVars>>
    /\ UNCHANGED <<builder, peer, tally>>

\* one pass of `for task in list(self._query_tasks): task.cancel(); await task`
\* (the task ends cancelled, whether it had begun to run or not), or the end
\* of the loop and self._query_tasks.clear(): the tasks created since the
\* copy was taken leave the list unfinished
CloseHooks ==
    /\ close_pc = "hooks"
    /\ IF close_left > 0
       THEN \E begun \in BOOLEAN :
                /\ begun => hook_started > 0
                /\ ~begun => hook_started < query_tasks
                /\ \/ /\ query_tasks' = query_tasks - 1
                      /\ close_left' = close_left - 1
                      /\ hook_started' = IF begun THEN hook_started - 1 ELSE hook_started
                      /\ UNCHANGED <<hook_strays, close_pc>>
                   \/ /\ begun
                      /\ close_pc' = "await_hook"
                      /\ UNCHANGED <<query_tasks, close_left, hook_started, hook_strays>>
       ELSE /\ hook_strays' = hook_strays + query_tasks
            /\ query_tasks' = 0
            /\ hook_started' = 0
            /\ close_pc' = "conn"
            /\ UNCHANGED close_left
    /\ NoReturn
    /\ UNCHANGED <<fileVars, instVars, hook_count, periodic_specs, query_hooks,
                   loop_tasks, close_idx, histVars>>
    /\ UNCHANGED <<builder, peer, tally>>

\* close() is suspended in `await task` on a hook task whose method caught
\* the CancelledError and went on: the method returns in the end, runner()
\* with it, and close() goes on with the next task; or it raises, and the
\* exception leaves close().  A method that does neither keeps close() here
CloseAwaitHook ==
    /\ close_pc = "await_hook"
    /\ query_tasks' = query_tasks - 1
    /\ hook_started' = hook_started - 1
    /\ close_left' = close_left - 1
    /\ \E raised \in BOOLEAN :
        IF raised
        THEN close_result' = "ActionError" /\ close_pc' = "idle"
        ELSE close_result' = "none" /\ close_pc' = "hooks"
    /\ op_result' = "none"
    /\ UNCHANGED <<fileVars, instVars, hook_count, hook_strays, periodic_specs, query_hooks,
                   loop_tasks, close_idx, histVars>>
    /\ UNCHANGED <<builder, peer, tally>>

\* if self.conn: await self.conn.close()
CloseConn ==
    /\ close_pc = "conn"
    /\ conn' = "closed"
    /\ close_pc' = "flag"
    /\ NoReturn
    /\ UNCHANGED <<fileVars, pc, initialized, applied, idx, error, hook_count, query_tasks, hook_started, hook_strays, periodic_specs, query_hooks,
                   loop_tasks, close_idx, close_left, histVars>>
    /\ UNCHANGED <<builder, peer, tally>>

\* self.initialized = False, and close() returns
CloseReturn ==
    /\ close_pc = "flag"
    /\ initialized' = FALSE
    /\ pc' = "closed"
    /\ close_result' = "ok"
    /\ close_pc' = "idle"
    /\ op_result' = "none"
    /\ UNCHANGED <<fileVars, conn, applied, idx, error, hook_count, query_tasks,
                   hook_started, hook_strays, periodic_specs, query_hooks, loop_tasks, close_idx,
                   close_left, histVars>>
    /\ UNCHANGED <<builder, peer, tally>>

\* ------------------------------------------------------- the DDL builder
\* ColumnSpec.kind and the fixed mapping of the kinds to the affinities
ColumnKinds == {"integer", "text", "real", "boolean", "blob"}
Affinity(kind) ==
    CASE kind = "integer" -> "INTEGER"
      [] kind = "text" -> "TEXT"
      [] kind = "real" -> "REAL"
      [] kind = "boolean" -> "INTEGER"
      [] kind = "blob" -> "BLOB"

\* the identifiers the callers use (none has a double quote of its own to
\* double), and an identifier wrapped in double quotes
TableNames == {"users", "people"}
ColumnNames == {"id", "age"}
Quote(id) == <<"\"", id, "\"">>

\* auto_increment of primary_key: not given, true or false
AutoFlags == {"unset", "true", "false"}

\* a changed test: auto-increment is accepted for every kind stored as INTEGER
AutoAllowed_affinity(kind) == Affinity(kind) = "INTEGER"

\* auto-increment is accepted only when the primary key's kind is integer
AutoAllowed(kind) == kind = "integer"

\* whether the primary key is emitted with AUTOINCREMENT: as requested, and
\* without a request for an integer key only
AutoIncrement(kind, flag) == IF flag = "unset" THEN kind = "integer" ELSE flag = "true"

\* the elements of a sequence of token sequences, joined by the token sep
RECURSIVE Join(_, _)
Join(parts, sep) ==
    IF Len(parts) = 0 THEN <<>>
    ELSE IF Len(parts) = 1 THEN parts[1]
    ELSE parts[1] \o <<sep>> \o Join(Tail(parts), sep)

\* one column of CREATE TABLE
ColumnText(c) ==
    Quote(c.name) \o <<Affinity(c.kind)>>
        \o (IF c.pk THEN <<"PRIMARY KEY">> ELSE <<>>)
        \o (IF c.pk /\ c.auto THEN <<"AUTOINCREMENT">> ELSE <<>>)
        \o (IF c.not_null THEN <<"NOT NULL">> ELSE <<>>)

\* done() of a table builder: one CREATE TABLE statement, the columns
\* comma-joined in declaration order
TableText(b) ==
    <<"CREATE TABLE", "IF NOT EXISTS">> \o Quote(b.table) \o <<"(">>
        \o Join([k \in 1..Len(b.columns) |-> ColumnText(b.columns[k])], ",")
        \o <<")", ";">>

\* the text of one requested change, after ALTER TABLE "<table>"
ActionText(a) ==
    CASE a.act = "add_column" -> <<"ADD COLUMN">> \o Quote(a.name) \o <<Affinity(a.kind)>>
      [] a.act = "drop_column" -> <<"DROP COLUMN">> \o Quote(a.name)
      [] a.act = "rename_column" -> <<"RENAME COLUMN">> \o Quote(a.name) \o <<"TO">> \o Quote(a.to)
      [] a.act = "rename_to" -> <<"RENAME TO">> \o Quote(a.to)

\* a changed builder: after rename_to the statements name the new table
TableAt_renamed(b, k) ==
    LET renames == {j \in 1..(k - 1) : b.actions[j].act = "rename_to"}
    IN  IF renames = {} THEN b.table
        ELSE b.actions[CHOOSE j \in renames : \A i \in renames : i <= j].to

\* the table the k-th statement names: the one given to alter_table
TableAt(b, k) == b.table

\* one standalone statement per requested change, terminated by ';'
Statement(b, k) == <<"ALTER TABLE">> \o Quote(TableAt(b, k)) \o ActionText(b.actions[k]) \o <<";">>

\* done() of an alter builder: the statements in request order, joined by
\* line breaks
AlterText(b) == Join([k \in 1..Len(b.actions) |-> Statement(b, k)], "\n")

\* Builder.create_table(name)
CreateTable(t) ==
    /\ builder' = [NoBuilder EXCEPT !.of = "table", !.table = t]
    /\ UNCHANGED <<baseVars, peer, tally>>

\* .primary_key(name, kind, auto_increment=flag): a request for auto-increment
\* on a kind that does not take it fails here, at build time, and the builder
\* gets no column
PrimaryKey(name, kind, flag) ==
    /\ builder.of = "table"
    /\ ~builder.done
    /\ builder.columns = <<>>
    /\ IF flag = "true" /\ ~AutoAllowed(kind)
       THEN builder' = [builder EXCEPT !.asked = <<kind, flag>>, !.error = "ValueError"]
       ELSE builder' = [builder EXCEPT
                            !.asked = <<kind, flag>>,
                            !.error = "none",
                            !.columns = <<[name |-> name, kind |-> kind, pk |-> TRUE,
                                           auto |-> AutoIncrement(kind, flag),
                                           not_null |-> FALSE]>>]
    /\ UNCHANGED <<baseVars, peer, tally>>

\* .add_field(name, kind, not_null=...)
AddField(name, kind, notNull) ==
    /\ builder.of = "table"
    /\ ~builder.done
    /\ Len(builder.columns) \in 1..MaxFields
    /\ \A k \in DOMAIN builder.columns : builder.columns[k].name # name
    /\ builder' = [builder EXCEPT
                       !.error = "none",
                       !.columns = Append(@, [name |-> name, kind |-> kind, pk |-> FALSE,
                                              auto |-> FALSE, not_null |-> notNull])]
    /\ UNCHANGED <<baseVars, peer, tally>>

\* Builder.alter_table(name)
AlterTable(t) ==
    /\ builder' = [NoBuilder EXCEPT !.of = "alter", !.table = t]
    /\ UNCHANGED <<baseVars, peer, tally>>

\* a change is requested of the alter builder: it is appended to its list
Request(a) ==
    /\ builder.of = "alter"
    /\ ~builder.done
    /\ Len(builder.actions) < MaxActions
    /\ builder' = [builder EXCEPT !.actions = Append(@, a)]
    /\ UNCHANGED <<baseVars, peer, tally>>

\* .add_column(name, kind)
AddColumn(name, kind) ==
    Request([act |-> "add_column", name |-> name, kind |-> kind, to |-> "none"])

\* .drop_column(name)
DropColumn(name) ==
    Request([act |-> "drop_column", name |-> name, kind |-> "none", to |-> "none"])

\* .rename_column(old, new)
RenameColumn(old, new) ==
    /\ old # new
    /\ Request([act |-> "rename_column", name |-> old, kind |-> "none", to |-> new])

\* .rename_to(new)
RenameTo(new) ==
    Request([act |-> "rename_to", name |-> "none", kind |-> "none", to |-> new])

\* .done(): the text of the script
Done ==
    /\ builder.of \in {"table", "alter"}
    /\ ~builder.done
    /\ builder.of = "table" => builder.columns # <<>>
    /\ builder' = [builder EXCEPT
                       !.done = TRUE,
                       !.error = "none",
                       !.text = IF builder.of = "table" THEN TableText(builder)
                                ELSE AlterText(builder)]
    /\ UNCHANGED <<baseVars, peer, tally>>

\* ---------------------------------------------------------- specification
Next ==
    \/ Construct
    \/ InitCall
    \/ Connect
    \/ EnsureTable
    \/ Precheck
    \/ ReadApplied
    \/ MissingName
    \/ SkipApplied
    \/ StartScript
    \/ ScriptDone
    \/ BadFunction
    \/ CallFunction
    \/ CoroDone
    \/ NoAction
    \/ InsertRow
    \/ Commit
    \/ InitDone
    \/ DeferredDone
    \/ \E op \in OneOfEachShape : \E emptyRows \in RowArgs(op) : DataOp(op, emptyRows)
    \/ HookTaskStart
    \/ HookTaskDone
    \/ StrayHookRuns
    \/ \E i \in 1..MaxLoopTasks : PeriodicInvoke(i)
    \/ \E i \in 1..MaxLoopTasks : PeriodicReturn(i)
    \/ \E i \in 1..MaxLoopTasks : PeriodicRaise(i)
    \/ \E i \in 1..MaxLoopTasks : Cleanup(i)
    \/ CloseCall
    \/ ClosePeriodic
    \/ CloseAwait
    \/ CloseHooks
    \/ CloseAwaitHook
    \/ CloseConn
    \/ CloseReturn

Spec == Init /\ [][Next]_vars

\* The event loop runs every task that is ready: a loop task that was just
\* created, or whose sleep is over, gets its next step.
Fairness == \A i \in 1..MaxLoopTasks : WF_vars(PeriodicInvoke(i))
\* the subclasses with a list of one migration at most, one periodic method
\* and the query hook
InitLive == InitWith({c \in Subclasses(1, 1) : c.specs = {"tick"} /\ c.hooks = {"hook"}})
SpecLive == InitLive /\ [][Next]_vars /\ Fairness

\* A second specification with lists one entry longer, for the duplicate check
InitLong == InitWith(Subclasses(MaxMigs + 1, 1))
SpecLong == InitLong /\ [][Next]_vars

\* ------------------------------------------- a second instance, same file
\* Another instance of the same subclass (the same migrations()) is opened on
\* the file while the first one is: the steps of its init(), between its
\* awaits, interleave with those of the first.  It runs the code of the first:
\* each action below is the action of the same name above, on `peer`.
PeerCurrent == migrations_list[Position(peer.idx)]
PeerInLoop == peer.pc = "loop" /\ peer.idx <= Len(migrations_list)
PeerUnapplied ==
    PeerInLoop /\ PeerCurrent.name # NoName /\ ~IsApplied(PeerCurrent.name, peer.applied)
PeerGoes(to) == peer' = [peer EXCEPT !.pc = to]
PeerRaise(e) == peer' = [peer EXCEPT !.pc = "failed", !.error = e]
PeerAlone == UNCHANGED <<fileVars, instVars, schedVars, histVars, builder, tally>>

\* cls.open(db_path) of the second instance, once the first has been
\* constructed: instance = cls(db_path); await instance.init()
PeerOpen ==
    /\ pc # "none"
    /\ peer.pc = "none"
    /\ PeerGoes("connect")
    /\ NoReturn
    /\ PeerAlone

\* self.conn = await aiosqlite.connect(self.db_path)
PeerConnect ==
    /\ peer.pc = "connect"
    /\ PeerGoes("ensure")
    /\ NoReturn
    /\ PeerAlone

\* await self._ensure_migrations_table()
PeerEnsureTable ==
    /\ peer.pc = "ensure"
    /\ table_exists' = TRUE
    /\ PeerGoes("precheck")
    /\ NoReturn
    /\ UNCHANGED <<migrations_list, ledger, deferred, instVars, schedVars, histVars, builder, tally>>

\* the duplicate check at the head of _apply_migrations
PeerPrecheck ==
    /\ peer.pc = "precheck"
    /\ LET dupes == Dupes(NamesOf(migrations_list))
       IN  IF dupes # {} THEN PeerRaise(DupesError(dupes)) ELSE PeerGoes("read")
    /\ NoReturn
    /\ PeerAlone

\* applied = await self._applied_versions()
PeerReadApplied ==
    /\ peer.pc = "read"
    /\ peer' = [peer EXCEPT !.pc = "loop", !.applied = AppliedVersions(ledger), !.idx = 1]
    /\ NoReturn
    /\ PeerAlone

\* if not name: raise ValueError("Migration entry missing 'name'")
PeerMissingName ==
    /\ PeerInLoop
    /\ PeerCurrent.name = NoName
    /\ PeerRaise("ValueError")
    /\ NoReturn
    /\ PeerAlone

\* if name in applied: continue
PeerSkipApplied ==
    /\ PeerInLoop
    /\ PeerCurrent.name # NoName
    /\ IsApplied(PeerCurrent.name, peer.applied)
    /\ peer' = [peer EXCEPT !.idx = @ + 1]
    /\ NoReturn
    /\ PeerAlone

\* the action of the second instance's current entry starts
PeerNoteStart ==
    /\ starts' = [starts EXCEPT ![PeerCurrent.name] = @ + 1]
    /\ UNCHANGED <<fileVars, instVars, schedVars, opens, run_log, in_progress, touched,
                   completed, failed_at, prev_failed_at, raised_at, builder, tally>>

\* if "sql" in mig: await self.conn.executescript(mig["sql"])
PeerStartScript ==
    /\ PeerUnapplied
    /\ HasSql(PeerCurrent)
    /\ PeerGoes("script")
    /\ PeerNoteStart
    /\ NoReturn

\* executescript, or the awaited coroutine of a callback, returns or raises
PeerActionDone ==
    /\ peer.pc \in {"script", "coro"}
    /\ \E raised \in BOOLEAN :
        IF AfterAction(raised) = "failed" THEN PeerRaise("ActionError") ELSE PeerGoes("insert")
    /\ NoReturn
    /\ PeerAlone

\* elif "function" in mig: if not callable(func): raise ValueError;
\* else: raise ValueError("Migration ... must have either 'sql' or 'function'")
PeerNoAction ==
    /\ PeerUnapplied
    /\ ~HasSql(PeerCurrent)
    /\ ~(HasFunction(PeerCurrent) /\ IsCallable(PeerCurrent))
    /\ PeerRaise("ValueError")
    /\ NoReturn
    /\ PeerAlone

\* result = func(self.conn); if asyncio.iscoroutine(result): await result
PeerCallFunction ==
    /\ PeerUnapplied
    /\ ~HasSql(PeerCurrent) /\ HasFunction(PeerCurrent) /\ IsCallable(PeerCurrent)
    /\ starts' = [starts EXCEPT ![PeerCurrent.name] = @ + 1]
    /\ \E result \in Results :
        CASE result = "raise" -> PeerRaise("ActionError") /\ UNCHANGED deferred
          [] result = "value" -> PeerGoes("insert") /\ UNCHANGED deferred
          [] result = "coroutine" -> PeerGoes("coro") /\ UNCHANGED deferred
          [] result = "awaitable" ->
                PeerGoes("insert") /\ deferred' = deferred \cup {PeerCurrent.name}
    /\ NoReturn
    /\ UNCHANGED <<migrations_list, ledger, table_exists, instVars, schedVars, opens, run_log,
                   in_progress, touched, completed, failed_at, prev_failed_at, raised_at,
                   builder, tally>>

\* await self.conn.execute("INSERT INTO applied_migrations(name) VALUES (?)")
PeerInsertRow ==
    /\ peer.pc = "insert"
    /\ \E ok \in BOOLEAN :
        IF ok /\ PeerCurrent.name \notin ledger /\ ~Locked(pc)
        THEN PeerGoes("commit")
        ELSE PeerRaise("DatabaseError")
    /\ NoReturn
    /\ PeerAlone

\* await self.conn.commit()
PeerCommit ==
    /\ peer.pc = "commit"
    /\ \E ok \in BOOLEAN :
        IF ok
        THEN /\ ledger' = CommitRow(ledger, PeerCurrent.name)
             /\ peer' = [peer EXCEPT !.pc = "loop", !.idx = @ + 1]
        ELSE /\ PeerRaise("DatabaseError")
             /\ UNCHANGED ledger
    /\ NoReturn
    /\ UNCHANGED <<migrations_list, table_exists, deferred, instVars, schedVars, histVars, builder, tally>>

\* _apply_migrations returns: self.initialized = True (a subclass without
\* periodic actions creates no task)
PeerInitDone ==
    /\ peer.pc = "loop"
    /\ LoopOver(peer.idx, migrations_list)
    /\ PeerGoes("ready")
    /\ NoReturn
    /\ PeerAlone

\* A program whose migrations are edited between its runs: no periodic
\* action, no hook, and no client but open() and close()
NextEdited ==
    \/ Construct
    \/ Redeclare
    \/ InitCall
    \/ Connect
    \/ EnsureTable
    \/ Precheck
    \/ ReadApplied
    \/ MissingName
    \/ SkipApplied
    \/ StartScript
    \/ ScriptDone
    \/ BadFunction
    \/ CallFunction
    \/ CoroDone
    \/ NoAction
    \/ InsertRow
    \/ Commit
    \/ InitDone
    \/ DeferredDone
    \/ CloseCall
    \/ ClosePeriodic
    \/ CloseConn
    \/ CloseReturn
InitEdited == InitWith(Subclasses(MaxMigs, 0))
SpecEdited == InitEdited /\ [][NextEdited]_vars

\* Two instances of a subclass without periodic actions and hooks are
\* opened on one file at the same time
NextPeers ==
    \/ Construct
    \/ InitCall
    \/ Connect
    \/ EnsureTable
    \/ Precheck
    \/ ReadApplied
    \/ MissingName
    \/ SkipApplied
    \/ StartScript
    \/ ScriptDone
    \/ BadFunction
    \/ CallFunction
    \/ CoroDone
    \/ NoAction
    \/ InsertRow
    \/ Commit
    \/ InitDone
    \/ DeferredDone
    \/ PeerOpen
    \/ PeerConnect
    \/ PeerEnsureTable
    \/ PeerPrecheck
    \/ PeerReadApplied
    \/ PeerMissingName
    \/ PeerSkipApplied
    \/ PeerStartScript
    \/ PeerActionDone
    \/ PeerNoAction
    \/ PeerCallFunction
    \/ PeerInsertRow
    \/ PeerCommit
    \/ PeerInitDone
InitPeers == InitWith(Subclasses(MaxMigs - 1, 0))
SpecPeers == InitPeers /\ [][NextPeers]_vars

\* A subclass with a query hook whose method uses the instance it runs on,
\* and no periodic action; the operations are counted
NextHooked ==
    \/ Construct
    \/ InitCall
    \/ Connect
    \/ EnsureTable
    \/ Precheck
    \/ ReadApplied
    \/ MissingName
    \/ SkipApplied
    \/ StartScript
    \/ ScriptDone
    \/ BadFunction
    \/ CallFunction
    \/ CoroDone
    \/ NoAction
    \/ InsertRow
    \/ Commit
    \/ InitDone
    \/ DeferredDone
    \/ \E op \in OneOfEachShape : \E emptyRows \in RowArgs(op) : CallerOp(op, emptyRows)
    \/ \E op \in OneOfEachShape : \E emptyRows \in RowArgs(op) : HookOp(op, emptyRows)
    \/ HookTaskStart
    \/ HookTaskDone
    \/ StrayHookRuns
    \/ CloseCall
    \/ ClosePeriodic
    \/ CloseHooks
    \/ CloseAwaitHook
    \/ CloseConn
    \/ CloseReturn
InitHooked == InitWith({c \in Subclasses(1, 1) : c.specs = {} /\ c.hooks # {}})
SpecHooked == InitHooked /\ [][NextHooked]_vars

\* The DDL builder is a pure compiler: its callers, on their own
NextBuilder ==
    \/ \E t \in TableNames : CreateTable(t)
    \/ \E name \in ColumnNames, kind \in ColumnKinds, flag \in AutoFlags : PrimaryKey(name, kind, flag)
    \/ \E name \in ColumnNames, kind \in ColumnKinds, notNull \in BOOLEAN : AddField(name, kind, notNull)
    \/ \E t \in TableNames : AlterTable(t)
    \/ \E name \in ColumnNames, kind \in ColumnKinds : AddColumn(name, kind)
    \/ \E name \in ColumnNames : DropColumn(name)
    \/ \E old \in ColumnNames, new \in ColumnNames : RenameColumn(old, new)
    \/ \E new \in TableNames : RenameTo(new)
    \/ Done
InitBuilder == InitWith({c \in Subclasses(0, 0) : c.specs = {} /\ c.hooks = {}})
SpecBuilder == InitBuilder /\ [][NextBuilder]_vars

\* ------------------------------------------------------------ vocabulary
Range(seq) == {seq[k] : k \in DOMAIN seq}
NameAt(i) == migrations_list[i].name
AllNames == {NameAt(i) : i \in DOMAIN migrations_list}
Increasing(seq) == \A k \in 1..(Len(seq) - 1) : seq[k] < seq[k + 1]
\* the names whose action this init() started
RunNames == {NameAt(i) : i \in Range(run_log)}
\* init() is in, or has left, the loop of _apply_migrations
PastRead == "read" \in touched

\* ------------------------------------------------------------------ C1
\* C1: once an open() has completed, every declared name is in the ledger;
\* from then on (a second open() on the same file) no migration action is
\* started, no ledger row is added and no init() raises.
C1_SecondOpenAppliesNothing ==
    /\ [](completed => AllNames \subseteq ledger)
    /\ [][completed => /\ starts' = starts
                       /\ ledger' = ledger
                       /\ pc' # "failed"
                       /\ error' = "none"]_vars

\* a second open() has completed after a first one did, on a list of two entries or more
C1_Witness ==
    /\ pc = "ready"
    /\ opens >= 2
    /\ prev_failed_at = 0
    /\ run_log = <<>>
    /\ Len(migrations_list) >= 2
    /\ \E n \in Names : starts[n] = 1

\* ------------------------------------------------------------------ C2
\* C2 as claimed: over any sequence of open() attempts, failed ones included,
\* the action of a name is started at most once on a file.
C2_StartedAtMostOnce == \A n \in Names : starts[n] <= 1

\* C2 amended: the action of a name is never started again once the name's
\* ledger row is committed; before that (the action or the insert failed)
\* every open() starts it again.
C2_NeverStartedOnceRecorded ==
    [][\A n \in Names : n \in ledger => starts'[n] = starts[n]]_vars

\* an open() has completed that skipped a recorded name, whose action ran
\* once, and ran for the second time an action whose first run was not recorded
C2_Witness ==
    /\ pc = "ready"
    /\ \E n \in applied : starts[n] = 1
    /\ \E n \in ledger : starts[n] = 2

C4_DuplicateNamesRejected ==
    (\E n \in Names : Count(NamesOf(migrations_list), n) > 1) =>
        /\ pc \notin {"read", "loop", "script", "coro", "insert", "commit", "ready"}
        /\ pc = "failed" => error = "ValueError"
        /\ run_log = <<>>
        /\ "write" \notin touched
        /\ ~initialized

\* ------------------------------------------------------------------ C5
\* C5: when an entry lacks a name or lacks an action, init() raises
\* ValueError and no action of any entry is started, nor any ledger row
\* written.  Stated for the lists that pass the duplicate check (C4 is about
\* the others).
C5_InvalidEntryRunsNothing ==
    (/\ Dupes(NamesOf(migrations_list)) = {}
     /\ \E i \in DOMAIN migrations_list :
            \/ NameAt(i) = NoName
            \/ migrations_list[i].kind \in {"none", "badfunction"}) =>
        /\ pc # "ready"
        /\ pc = "failed" => error = "ValueError"
        /\ run_log = <<>>
        /\ "write" \notin touched

\* ------------------------------------------------------------------ C6
\* C6: when init() raises ValueError for its migration list, it has not
\* created, read or written applied_migrations.
C6_ValidatedBeforeLedgerTouched ==
    (pc = "failed" /\ error = "ValueError") => touched = {}

\* ------------------------------------------------------------------ C7
\* C7: an entry that carries both 'sql' and 'function' is rejected: its
\* action is never started and no init() completes with it in the list.
C7_BothKindsRejected ==
    /\ \A i \in Range(run_log) : migrations_list[i].kind # "both"
    /\ pc = "ready" => \A i \in DOMAIN migrations_list : migrations_list[i].kind # "both"

\* ------------------------------------------------------------------ C8
\* C8: when the action of entry k raises, init() raises that error at k: no
\* entry after k is started, every entry before k has its ledger row, k has
\* none, and the instance is not initialized (and has no loop task); ledger
\* rows are never removed.
C8_ActionFailureAborts ==
    /\ [](raised_at # 0 =>
            /\ pc = "failed"
            /\ error = "ActionError"
            /\ failed_at = raised_at
            /\ ~initialized
            /\ loop_tasks = <<>>
            /\ run_log # <<>>
            /\ run_log[Len(run_log)] = raised_at
            /\ \A j \in Range(run_log) : j <= raised_at
            /\ NameAt(raised_at) \notin ledger
            /\ \A i \in 1..(raised_at - 1) : NameAt(i) \in ledger)
    /\ [][ledger \subseteq ledger']_vars

\* of three entries the first was run and committed by this init(), the
\* action of the second raised, the third is pending
C8_Witness ==
    /\ Len(migrations_list) = 3
    /\ raised_at = 2
    /\ run_log = <<1, 2>>
    /\ pc = "failed"

\* ------------------------------------------------------------------ C9
\* the entries the loop has skipped or started
Decided ==
    IF pc \in {"script", "coro", "insert", "commit"} THEN idx
    ELSE IF pc = "failed"
         THEN IF failed_at \in Range(run_log) THEN failed_at ELSE failed_at - 1
    ELSE idx - 1

\* C9: an init() skips exactly the entries whose names were in the ledger
\* when it read it, and starts the others in declared order; after an init()
\* that failed at entry k, the first action the next init() starts is k's.
C9_RetryFromFailedEntry ==
    PastRead =>
        /\ applied = ledger \ RunNames
        /\ Increasing(run_log)
        /\ \A i \in 1..Decided : i \in Range(run_log) <=> NameAt(i) \notin applied
        /\ (prev_failed_at # 0 /\ run_log # <<>>) => run_log[1] = prev_failed_at

\* the init() before failed at entry 2 of three; this one skipped entry 1,
\* ran entry 2 and then entry 3, and completed
C9_Witness ==
    /\ Len(migrations_list) = 3
    /\ prev_failed_at = 2
    /\ applied = {NameAt(1)}
    /\ run_log = <<2, 3>>
    /\ pc = "ready"

\* ------------------------------------------------------------------ C10
\* C10: an instance that was never initialized, whose init() failed or that
\* was closed has initialized = False; a data operation on an instance that is
\* not initialized or has no connection ends in RuntimeError and changes
\* neither the hook counter, the hook tasks, the connection nor the ledger;
\* an operation is accepted only when initialized is true and a connection is
\* set.
C10_NotReadyRefuses ==
    /\ [](pc \in {"new", "failed", "closed"} => ~initialized)
    /\ [][op_result' # "none" =>
            \/ IF initialized /\ conn # "None"
               THEN op_result' \in {"ok", "DatabaseError", "ConnectionError"}
               ELSE /\ op_result' = "RuntimeError"
                    /\ UNCHANGED <<hook_count, query_tasks, conn, ledger>>
            \/ ~\E op \in DataOps : \E emptyRows \in RowArgs(op) : DataOp(op, emptyRows)]_vars

\* a closed instance, one accepted operation counted by the hook before the
\* close, has refused a data operation
C10_Witness ==
    /\ pc = "closed"
    /\ hook_count = 1
    /\ op_result = "RuntimeError"

\* ------------------------------------------------- scheduler vocabulary
\* positions of the loop tasks of spec s that are inside `await method()`
InvokingOf(s) == {i \in DOMAIN loop_tasks : loop_tasks[i].spec = s /\ loop_tasks[i].st = "invoking"}
\* some background task of the instance exists
AnyTask == loop_tasks # <<>> \/ query_tasks > 0 \/ hook_strays > 0
\* the step creates a loop task or a hook task
TaskCreated == Len(loop_tasks') > Len(loop_tasks) \/ query_tasks' > query_tasks
\* init() is between its call and its return or raise
InInit == pc \in {"connect", "ensure", "precheck", "read", "loop", "script", "coro",
                  "insert", "commit"}

\* ----------------------------------------------------------------- C11
\* C11: a background task is created only in a step that leaves the instance
\* initialized, with every declared name in the ledger and no init() failed;
\* whenever a task exists every migration has been applied and some init()
\* has completed; an instance whose init() failed has no task.
C11_TasksOnlyAfterMigrations ==
    /\ [][TaskCreated => /\ initialized'
                         /\ AllNames \subseteq ledger
                         /\ pc' # "failed"]_vars
    /\ [](AnyTask => AllNames \subseteq ledger /\ completed)
    /\ [](pc = "failed" => ~AnyTask)

\* this init() ran the one migration of the list and returned; since then a
\* loop task is inside the periodic method and a hook task is running
C11_Witness ==
    /\ pc = "ready"
    /\ run_log = <<1>>
    /\ InvokingOf("tick") # {}
    /\ hook_started > 0

\* ----------------------------------------------------------------- C12
\* C12: of one periodic spec, at most one invocation is in progress on the
\* instance at any time.
C12_SameSpecNeverOverlaps ==
    \A s \in periodic_specs : Cardinality(InvokingOf(s)) <= 1

\* ----------------------------------------------------------------- C13
\* C13: a loop task starts an invocation only out of a sleep of its interval:
\* the first invocation too comes after a wait, never straight from the
\* creation of the task.
C13_FirstInvocationAfterInterval ==
    [][\A i \in DOMAIN loop_tasks :
          (/\ Len(loop_tasks') = Len(loop_tasks)
           /\ loop_tasks[i].st # "invoking"
           /\ loop_tasks'[i].st = "invoking") => loop_tasks[i].st = "sleeping"]_vars

\* ----------------------------------------------------------------- C14
\* C14: a loop task that is waiting (just created, or asleep after an
\* invocation that returned) gets to invoke its method again, unless it is
\* taken away first (cancelled by close(), or the instance is dropped): as
\* long as the instance stays open and the method returns, invocation
\* follows invocation forever.
C14_InvokedAgainAndAgain ==
    \A i \in 1..MaxLoopTasks :
        (i \in DOMAIN loop_tasks /\ loop_tasks[i].st \in {"created", "sleeping"})
            ~> (i \notin DOMAIN loop_tasks \/ loop_tasks[i].st \notin {"created", "sleeping"})

\* on an open instance an invocation has returned and the loop is in the
\* sleep the next invocation follows
C14_Witness ==
    /\ pc = "ready"
    /\ close_pc = "idle"
    /\ \E i \in DOMAIN loop_tasks : loop_tasks[i].st = "sleeping"

\* ----------------------------------------------------------------- C15
\* C15: every data operation that completes on an instance with a hook of
\* threshold T moves the counter from c to (c + 1) mod T and launches the
\* hook's action exactly when the counter wraps; from counter 0 and no launch
\* at construction, that is floor(n / T) launches and counter n mod T after n
\* completed operations.
C15_HookCountsEveryOperation ==
    [][(op_result' = "ok" /\ query_hooks # {}) =>
          /\ hook_count' = (hook_count + 1) % HookInterval
          /\ query_tasks' = query_tasks + (IF hook_count + 1 = HookInterval THEN 1 ELSE 0)]_vars

\* ----------------------------------------------------------------- C16
\* C16: the step that creates a hook task leaves the counter at zero, is the
\* return of the data operation that crossed the threshold, and leaves the
\* new task not yet run; and while hook tasks are unfinished the counter
\* leaves zero only when a further data operation completes.
C16_CounterResetAtLaunch ==
    /\ [][query_tasks' > query_tasks =>
            /\ hook_count' = 0
            /\ op_result' = "ok"
            /\ query_tasks' = query_tasks + 1
            /\ hook_started' = hook_started]_vars
    /\ [][(query_tasks + hook_strays > 0 /\ hook_count = 0 /\ op_result' # "ok") =>
            hook_count' = 0]_vars

\* the operation that crossed the threshold has just returned: the counter
\* is zero and the launched task has not run yet
C16_Witness ==
    /\ op_result = "ok"
    /\ hook_count = 0
    /\ query_tasks = 1
    /\ hook_started = 0

\* ----------------------------------------------------------------- C17
\* C17: a threshold crossing that happens while a task of the hook is
\* unfinished creates one more task and leaves the unfinished ones as they
\* are; two tasks of the hook can be running at once (the witness).
C17_OverlappingLaunchKept ==
    [][(/\ op_result' = "ok"
        /\ query_hooks # {}
        /\ hook_count = HookInterval - 1
        /\ hook_count' = 0
        /\ query_tasks > 0) =>
            /\ query_tasks' = query_tasks + 1
            /\ hook_started' = hook_started]_vars

\* two tasks of the hook have both begun and neither has finished
C17_Witness ==
    /\ query_tasks = 2
    /\ hook_started = 2

\* ----------------------------------------------------------------- C18
\* C18: once close() has returned, no loop task and no hook task of the
\* instance takes a step: no periodic action is invoked, returns or raises,
\* and no hook action starts, continues or ends.
C18_NothingRunsAfterClose ==
    [][(pc = "closed" /\ close_pc = "idle") =>
          /\ ~(\E i \in 1..MaxLoopTasks :
                  PeriodicInvoke(i) \/ PeriodicReturn(i) \/ PeriodicRaise(i))
          /\ ~(HookTaskStart \/ HookTaskDone \/ StrayHookRuns)]_vars

\* ----------------------------------------------------------------- C19
\* C19: when close() calls conn.close(), and for as long as the connection
\* is closed, no loop task and no hook task of the instance is unfinished.
C19_TasksTerminalBeforeConnClose ==
    (close_pc = "conn" \/ conn = "closed") =>
        /\ loop_tasks = <<>>
        /\ query_tasks = 0
        /\ hook_strays = 0

\* ----------------------------------------------------------------- C20
\* C20: a periodic action that raised ends its own loop task only: the
\* instance stays initialized while the ended task is still known to it, and
\* no close() fails with the action's exception.
C20_ActionFailureStaysInItsTask ==
    /\ (\E i \in DOMAIN loop_tasks : loop_tasks[i].st = "raised") => initialized
    /\ close_result # "ActionError"

\* ----------------------------------------------------------------- C21
\* C21: an accepted close() ends in one way only, by returning with the
\* connection closed and initialized false; and while the task it awaits has
\* not ended it stays in that await, however long that takes.
C21_CloseBlocksThenReturns ==
    /\ [][(close_pc # "idle" /\ close_pc' = "idle") =>
            /\ close_result' = "ok"
            /\ conn' = "closed"
            /\ ~initialized']_vars
    /\ [][(close_pc = "await" /\ close_pc' # "await") =>
            \E i \in DOMAIN loop_tasks : Awaited(i) /\ loop_tasks[i].st = "raised"]_vars
    /\ [][(close_pc = "await_hook" /\ close_pc' # "await_hook") =>
            hook_started' < hook_started]_vars

\* ----------------------------------------------------------------- C22
\* C22: each of the eleven data operations, called with any argument (an
\* empty row list too) on an instance with a query hook, notifies the hook
\* exactly once when it completes: the counter moves by one notification,
\* not by none and not by two.
C22_EveryOperationNotifiesOnce ==
    [][\A op \in DataOps : \A emptyRows \in RowArgs(op) :
          (DataOp(op, emptyRows) /\ op_result' = "ok" /\ query_hooks # {}) =>
              hook_count' = (hook_count + 1) % HookInterval]_vars

\* ------------------------------------------------- builder vocabulary
\* the positions of a token in the text, and the k-th of a set of positions
Places(text, token) == {i \in DOMAIN text : text[i] = token}
Nth(places, k) == CHOOSE i \in places : Cardinality({j \in places : j <= i}) = k
\* the last primary_key call asked for auto-increment on a kind that is not integer
Refused == builder.asked # <<>> /\ builder.asked[2] = "true" /\ builder.asked[1] # "integer"
\* the keyword each kind of change is emitted with
Verb(act) ==
    CASE act = "add_column" -> "ADD COLUMN"
      [] act = "drop_column" -> "DROP COLUMN"
      [] act = "rename_column" -> "RENAME COLUMN"
      [] act = "rename_to" -> "RENAME TO"

\* ----------------------------------------------------------------- C23
\* C23: primary_key with auto_increment=true on a kind other than integer
\* fails with ValueError, in the call itself, with no column taken and no text
\* produced, and nothing else fails so; the text of a table whose primary key
\* was declared without the flag has AUTOINCREMENT exactly when the kind is
\* integer.
C23_AutoIncrementOnlyForInteger ==
    /\ Refused => /\ builder.error = "ValueError"
                  /\ builder.columns = <<>>
                  /\ builder.text = <<>>
                  /\ ~builder.done
    /\ builder.error = "ValueError" => Refused
    /\ (builder.of = "table" /\ builder.done /\ builder.asked[2] = "unset") =>
          (Places(builder.text, "AUTOINCREMENT") # {} <=> builder.asked[1] = "integer")

\* primary_key("id", text, auto_increment=true) has just failed
C23_Witness ==
    /\ builder.of = "table"
    /\ builder.asked = <<"text", "true">>
    /\ builder.error = "ValueError"

C25_EveryLoopCancelled ==
    [][(close_pc = "periodic" /\ close_pc' \in {"hooks", "conn"}) =>
          \A i \in DOMAIN loop_tasks : loop_tasks[i].listed => ~Alive(loop_tasks[i])]_vars

\* ----------------------------------------------------------------- C26
\* C26: when close() returns, no hook task that was created while close()
\* was awaiting the tasks it had cancelled is unfinished: it has been
\* cancelled and awaited like the others.
C26_NoHookTaskLeaked ==
    close_result = "ok" => hook_strays = 0

\* ------------------------------------------------------------------ C27
\* C27: the name in the ledger is the only thing init() looks at: at an entry
\* whose name is in the ledger, whatever the entry now declares, init() moves
\* to the next entry and nothing else: no action is started, no error is
\* raised, no row is added; and no step of the engine ever takes a name out of
\* the ledger.
C27_LedgerNameIsTheOnlySignal ==
    /\ [][ledger \subseteq ledger']_vars
    /\ [][(InLoop /\ Current.name \in ledger /\ <<pc, idx>>' # <<pc, idx>>) =>
            /\ pc' = "loop" /\ idx' = idx + 1
            /\ starts' = starts /\ run_log' = run_log
            /\ ledger' = ledger /\ deferred' = deferred
            /\ error' = error /\ failed_at' = failed_at]_vars

\* an init() has completed over a list in which an applied entry has been
\* edited so that it has no valid action any more
C27_Witness ==
    /\ pc = "ready"
    /\ run_log = <<>>
    /\ \E k \in DOMAIN migrations_list :
        /\ NameAt(k) \in ledger
        /\ ~HasSql(migrations_list[k])
        /\ ~(HasFunction(migrations_list[k]) /\ IsCallable(migrations_list[k]))

\* ------------------------------------------------------------------ C28
\* C28: whatever deferred result a callback returns, a coroutine or any other
\* awaitable, its work has finished when the entry's row is in the ledger and
\* when the next entry is started: no name in the ledger has deferred work
\* still pending, and no action starts while the deferred work of an earlier
\* entry of this run is pending.
C28_DeferredWorkAwaited ==
    /\ ledger \cap deferred = {}
    /\ \A k \in Range(run_log) : NameAt(k) \in deferred => k = Position(idx)

\* ------------------------------------------------------------------ C29
\* C29: between two calls of _on_query the counter of the hook is at least 0
\* and below the hook's threshold, whatever operations, hook tasks, init()
\* and close() calls have interleaved.
C29_CounterBelowThreshold ==
    /\ 0 <= hook_count
    /\ hook_count < HookInterval

\* the counter is one below the threshold again while a task launched at the
\* threshold runs, on an instance that has been closed and initialized anew
C29_Witness ==
    /\ hook_count = HookInterval - 1
    /\ hook_started > 0
    /\ opens = MaxOpens
    /\ initialized

\* ------------------------------------------------------------------ C30
\* C30: when init() has failed, the connection it opened is not left open on
\* the instance, or close() of the instance still accepts the call and so
\* releases it.
C30_FailedInitReleasesConn ==
    (pc = "failed" /\ conn = "open") => require_init(initialized, conn)

\* ------------------------------------------------------------------ C31
\* C31: whatever init() and close() calls the instance has seen, each periodic
\* spec has at most one loop task that has not ended, every loop task that
\* has not ended is in self._periodic_tasks, and init() opens a connection
\* only on an instance that holds no open one.
C31_OneLoopOneConnection ==
    /\ [](\A s \in periodic_specs :
            Cardinality({i \in DOMAIN loop_tasks :
                            loop_tasks[i].spec = s /\ Alive(loop_tasks[i])}) <= 1)
    /\ [](\A i \in DOMAIN loop_tasks : Alive(loop_tasks[i]) => loop_tasks[i].listed)
    /\ [][(pc = "connect" /\ pc' # "connect") => conn # "open"]_vars

\* ------------------------------------------------------------------ C32
\* C32: a session starts with the counter of the hook at zero: when an init()
\* completes on an instance that was not initialized (a new one, or one that
\* was closed), the counter is 0, so that the first launch of the session
\* comes after HookInterval operations of that session.
C32_SessionStartsAtZero ==
    [][(pc = "loop" /\ pc' = "ready" /\ ~initialized) => hook_count' = 0]_vars

\* ------------------------------------------------------------------ C33
\* C33: when a second instance is opened on the file while the first open()
\* is the only one made so far, the action of each name is started once at
\* most, by one of the two, and neither init() fails at its INSERT on a name
\* the other one has recorded.
C33_ConcurrentOpensShareTheWork ==
    opens <= 1 =>
        /\ \A n \in Names : starts[n] <= 1
        /\ ~(pc = "failed" /\ error = "DatabaseError" /\ Current.name \in ledger)
        /\ ~(peer.pc = "failed" /\ peer.error = "DatabaseError" /\ PeerCurrent.name \in ledger)

\* ------------------------------------------------------------------ C34
\* C34: close() is accepted only on an initialized instance with a
\* connection; refused, it raises RuntimeError and leaves the tasks, the
\* connection and initialized (false) as they were; when it returns normally
\* initialized is false, the connection is closed, and self._periodic_tasks
\* and self._query_tasks are empty.
C34_CloseRefusedOrComplete ==
    /\ [][(close_pc = "idle" /\ close_pc' # "idle") => require_init(initialized, conn)]_vars
    /\ [][(close_pc = "idle" /\ close_result' # "none") =>
            /\ close_result' = "RuntimeError"
            /\ ~(initialized /\ conn # "None")
            /\ UNCHANGED <<conn, initialized, loop_tasks, query_tasks, hook_started, hook_strays>>]_vars
    /\ [][close_result' = "ok" =>
            /\ ~initialized'
            /\ conn' = "closed"
            /\ \A i \in DOMAIN loop_tasks' : ~loop_tasks'[i].listed
            /\ query_tasks' = 0]_vars

\* ------------------------------------------------------------------ C35
\* C35: the hook tasks launched so far are at most floor(n / HookInterval),
\* n being the data operations completed so far by callers and by hook
\* methods together; and an operation a hook method issues moves the counter
\* and launches as one of a caller does: it is counted unless it returned
\* before its statement, and it launches exactly when the counter wraps.
C35_LaunchesBoundedByAllOperations ==
    /\ [](tally.launches * HookInterval <= tally.caller + tally.hooked)
    /\ [][(tally'.hooked > tally.hooked) =>
            \/ hook_count' = hook_count /\ tally'.launches = tally.launches
            \/ /\ hook_count' = (hook_count + 1) % HookInterval
               /\ tally'.launches = tally.launches + (IF hook_count' = 0 THEN 1 ELSE 0)]_vars

\* the operations of the callers alone do not account for the launches: a
\* hook task launched on the operations of a hook method is running
C35_Witness ==
    /\ tally.launches * HookInterval > tally.caller
    /\ tally.hooked >= HookInterval
    /\ hook_started > 0
    /\ initialized

====
